---- MODULE Spec2Model ----
(***************************************************************************)
(* lighthouse-to-prometheus.py: run lighthouse on one or more sites and    *)
(* POST the results to a Prometheus push gateway.                          *)
(*                                                                         *)
(* A Python str is a sequence of fragments.  The line break is the         *)
(* fragment NL; no other fragment holds a line break, so the lines of a    *)
(* text are what lies between its NL fragments.  A literal of the source   *)
(* is one fragment.  Python None is Null, a number n is Num(n), a dict is  *)
(* a record or a function, a list or tuple is a sequence.  Numbers are     *)
(* naturals.  The child's command line (chrome flags) and the gateway URL  *)
(* do not reach any state the model keeps and are left out; the child      *)
(* process and the gateway answer nondeterministically.                    *)
(***************************************************************************)
EXTENDS Naturals, Integers, Sequences, FiniteSets, TLC

VARIABLES
    urls,                \* args.urls
    use_cached_results,  \* args.use_cached_results
    files,               \* the working directory: file name -> content
    initial_files,       \* the working directory when the run started
    pc,                  \* the statement of __main__ about to run
    i,                   \* position of `url` in args.urls (the for loop)
    lighthouse_report,   \* the local of the same name
    results,             \* the accumulated samples
    trace,               \* the run's effects, in order
    error                \* the exception that ended the run, "" if none

vars == <<urls, use_cached_results, files, initial_files, pc, i,
          lighthouse_report, results, trace, error>>

----------------------------------------------------------------------------
(* Bounds of the model *)

\* most URLs on the command line
MaxUrls == 2
\* most categories in one report
MaxCats == 2
\* most audit references in one report, over all its categories
MaxRefs == 2
\* most samples in a batch handed to push_results directly
MaxBatch == 2

----------------------------------------------------------------------------
(* Values *)

NL == "\n"
S(x) == <<x>>
Null == [null |-> TRUE]
Num(n) == [n |-> n]

\* {} : a JSON document that parses and is falsy
EmptyDoc == [empty |-> TRUE]
\* content of a file that does not exist
Missing == [missing |-> TRUE]
\* content that json.load / json.loads rejects
NotJson == [notjson |-> TRUE]

\* Python truth value of a parsed document
Truthy(doc) == doc /= Null /\ doc /= EmptyDoc

RECURSIVE Digits(_)
Digits(n) ==
    LET d == <<"0", "1", "2", "3", "4", "5", "6", "7", "8", "9">>
    IN IF n < 10 THEN <<d[n + 1]>> ELSE Digits(n \div 10) \o <<d[(n % 10) + 1]>>

\* str(value) as an f-string formats it
Format(value) == IF value = Null THEN S("None") ELSE Digits(value.n)

RECURSIVE Join(_, _)
Join(sep, strs) ==
    IF strs = <<>> THEN <<>>
    ELSE IF Len(strs) = 1 THEN strs[1]
    ELSE strs[1] \o sep \o Join(sep, Tail(strs))

RECURSIVE Concat(_)
Concat(seqs) == IF seqs = <<>> THEN <<>> ELSE Head(seqs) \o Concat(Tail(seqs))

----------------------------------------------------------------------------
(* extract_metrics_from_report *)

FirstMeaningfulPaint == S("first-meaningful-paint")
SpeedIndex == S("speed-index")

KeyError == [ok |-> FALSE, samples |-> <<>>]
Ok(samples) == [ok |-> TRUE, samples |-> samples]

\* a loop that skips accessibility alone
SkippedOnlyAccessibility == {S("accessibility")}
\* the categories the loop skips, line 57
SkippedCategories == {S("pwa"), S("accessibility")}

\* `if score:` in place of the test below
ScoreIsTruthy(score) == score /= Null /\ score /= Num(0)
\* `score is not None`
ScoreIsNotNone(score) == score /= Null

\* the body of the loop with lines 82-94 indented under `if score is not None`
AuditSamplesNestedSpecials(labels, category_id, audit_id, audits) ==
    IF audit_id \notin DOMAIN audits THEN KeyError
    ELSE LET audit == audits[audit_id]
             score == audit.score
         IN IF ~ScoreIsNotNone(score) THEN Ok(<<>>)
            ELSE LET scored == << <<S("lighthouse_audit_score"),
                                    labels \o << <<S("category"), category_id>>,
                                                 <<S("id"), audit_id>> >>,
                                    score>> >>
                 IN IF audit_id \in {FirstMeaningfulPaint, SpeedIndex}
                    THEN IF "numericValue" \notin DOMAIN audit THEN KeyError
                         ELSE Ok(scored \o
                                 << <<IF audit_id = FirstMeaningfulPaint
                                      THEN S("lighthouse_first_meaningful_paint_ms")
                                      ELSE S("lighthouse_speed_index"),
                                      labels, audit.numericValue>> >>)
                    ELSE Ok(scored)

\* the samples one audit reference adds, or KeyError: lines 69-94
AuditSamples(labels, category_id, audit_id, audits) ==
    IF audit_id \notin DOMAIN audits THEN KeyError
    ELSE LET audit == audits[audit_id]
             score == audit.score
             scored == IF ScoreIsNotNone(score)
                       THEN << <<S("lighthouse_audit_score"),
                                 labels \o << <<S("category"), category_id>>,
                                              <<S("id"), audit_id>> >>,
                                 score>> >>
                       ELSE <<>>
         IN IF audit_id = FirstMeaningfulPaint
            THEN IF "numericValue" \notin DOMAIN audit THEN KeyError
                 ELSE Ok(scored \o << <<S("lighthouse_first_meaningful_paint_ms"),
                                        labels, audit.numericValue>> >>)
            ELSE IF audit_id = SpeedIndex
            THEN IF "numericValue" \notin DOMAIN audit THEN KeyError
                 ELSE Ok(scored \o << <<S("lighthouse_speed_index"),
                                        labels, audit.numericValue>> >>)
            ELSE Ok(scored)

\* the loop over category["auditRefs"]
RECURSIVE AuditRefsLoop(_, _, _, _, _)
AuditRefsLoop(labels, category_id, auditRefs, audits, acc) ==
    IF auditRefs = <<>> THEN Ok(acc)
    ELSE LET r == AuditSamples(labels, category_id, Head(auditRefs).id, audits)
         IN IF ~r.ok THEN KeyError
            ELSE AuditRefsLoop(labels, category_id, Tail(auditRefs), audits,
                               acc \o r.samples)

\* the loop over data["categories"].items()
RECURSIVE CategoriesLoop(_, _, _, _)
CategoriesLoop(labels, categories, audits, acc) ==
    IF categories = <<>> THEN Ok(acc)
    ELSE LET category == Head(categories)
             category_id == category.id
         IN IF category_id \in SkippedCategories
            THEN CategoriesLoop(labels, Tail(categories), audits, acc)
            ELSE LET r == AuditRefsLoop(
                              labels, category_id, category.auditRefs, audits,
                              acc \o << <<S("lighthouse_category_score"),
                                          labels \o << <<S("category"), category_id>> >>,
                                          category.score>> >>)
                 IN IF ~r.ok THEN KeyError
                    ELSE CategoriesLoop(labels, Tail(categories), audits, r.samples)

extract_metrics_from_report(data) ==
    IF "requestedUrl" \notin DOMAIN data THEN KeyError
    ELSE LET labels == << <<S("instance"), data.requestedUrl>> >>
         IN CategoriesLoop(
                labels, data.categories, data.audits,
                << <<S("lighthouse_scrape_duration_seconds"), labels,
                     data.timing.total>> >>)

----------------------------------------------------------------------------
(* push_results *)

flat_result_headers == <<
    S("# TYPE lighthouse_audit_score gauge"),
    S("# TYPE lighthouse_category_score gauge"),
    S("# TYPE lighthouse_event_ms gauge"),
    S("# TYPE lighthouse_first_meaningful_paint_ms gauge"),
    S("# TYPE lighthouse_scrape_duration_seconds gauge"),
    S("# TYPE lighthouse_speed_index gauge") >>

\* f'{key}="{value}"'
FlatLabel(label) == label[1] \o S("=\"") \o label[2] \o S("\"")

\* one entry of flat_results
FlatResult(result) ==
    LET metric_name == result[1]
        labels == result[2]
        value == result[3]
        flat_labels == S("{")
                       \o Join(S(","), [k \in 1..Len(labels) |-> FlatLabel(labels[k])])
                       \o S("}")
    IN metric_name \o flat_labels \o S(" ") \o Format(value)

flat_results_of(rs) == [k \in 1..Len(rs) |-> FlatResult(rs[k])]

\* the body of the POST
Payload(rs) == Join(S(NL), flat_result_headers \o flat_results_of(rs)) \o S(NL)

\* requests' Response.ok: raise_for_status() raises for 400..599 only
ResponseOk(status) == ~(400 <= status /\ status < 600)

----------------------------------------------------------------------------
(* The cache file of a URL, line 158 *)

\* quote(url, safe=""): every reserved character percent-encoded
QuoteFragment(f) ==
    CASE f = "https://example.com" -> "https%3A%2F%2Fexample.com"
      [] f = "https://example.org" -> "https%3A%2F%2Fexample.org"
      [] f = "https://example.net" -> "https%3A%2F%2Fexample.net"
      [] f = NL -> "%0A"
      [] OTHER -> f

quote(url) == [k \in 1..Len(url) |-> QuoteFragment(url[k])]

cached_result_file(url) == quote(url) \o S(".json")

----------------------------------------------------------------------------
(* Inputs: command lines, report documents, files and sample batches *)

UrlChoices == {S("https://example.com"), S("https://example.org")}

UsesHttp2 == S("uses-http2")
AuditIds == {FirstMeaningfulPaint, SpeedIndex, UsesHttp2}
CategoryIds == {S("performance"), S("seo"), S("pwa"), S("accessibility")}

\* the score a category of the enumerated reports carries
CategoryScore(category_id) ==
    CASE category_id = S("performance") -> Num(1)
      [] category_id = S("seo") -> Null
      [] category_id = S("pwa") -> Num(1)
      [] OTHER -> Num(0)

Category(category_id, auditRefs) ==
    [id |-> category_id, score |-> CategoryScore(category_id), auditRefs |-> auditRefs]

Ref(audit_id) == [id |-> audit_id]

Report(url, categories, audits) ==
    [requestedUrl |-> url, timing |-> [total |-> Num(1234)],
     categories |-> categories, audits |-> audits]

\* every audit present, first-meaningful-paint unscored
AuditsScored ==
    (FirstMeaningfulPaint :> [score |-> Null, numericValue |-> Num(900)])
    @@ (SpeedIndex :> [score |-> Num(0), numericValue |-> Num(1500)])
    @@ (UsesHttp2 :> [score |-> Num(1)])
\* every audit present, none scored
AuditsUnscored ==
    (FirstMeaningfulPaint :> [score |-> Null, numericValue |-> Num(900)])
    @@ (SpeedIndex :> [score |-> Null, numericValue |-> Num(1500)])
    @@ (UsesHttp2 :> [score |-> Null])
\* uses-http2 absent, speed-index without a numericValue
AuditsPartial ==
    (FirstMeaningfulPaint :> [score |-> Num(0), numericValue |-> Num(900)])
    @@ (SpeedIndex :> [score |-> Num(1)])
\* only uses-http2
AuditsOnlyGeneric == (UsesHttp2 :> [score |-> Num(0)])

AuditsChoices == {AuditsScored, AuditsUnscored, AuditsPartial, AuditsOnlyGeneric}

\* the lists of at most n audit references
RefLists(n) == UNION {[1..k -> {Ref(a) : a \in AuditIds}] : k \in 0..n}

\* the category lists of exactly k categories with distinct ids outside
\* `used` and at most `budget` audit references in all
RECURSIVE CategoryLists(_, _, _)
CategoryLists(k, budget, used) ==
    IF k = 0 THEN {<<>>}
    ELSE UNION {
           UNION {
             {<<Category(c, refs)>> \o rest :
                rest \in CategoryLists(k - 1, budget - Len(refs), used \cup {c})} :
             refs \in RefLists(budget)} :
           c \in CategoryIds \ used}

AllCategoryLists == UNION {CategoryLists(k, MaxRefs, {}) : k \in 0..MaxCats}

\* the reports the extractor is checked on
AllReports ==
    {Report(S("https://example.com"), categories, audits) :
       categories \in AllCategoryLists, audits \in AuditsChoices}

GoodReport(url) ==
    Report(url, <<Category(S("performance"), <<Ref(SpeedIndex), Ref(UsesHttp2)>>)>>,
           AuditsScored)
SkippingReport(url) ==
    Report(url, <<Category(S("pwa"), <<Ref(UsesHttp2)>>),
                  Category(S("seo"), <<Ref(FirstMeaningfulPaint)>>)>>,
           AuditsUnscored)
BrokenReport(url) ==
    Report(url, <<Category(S("performance"), <<Ref(UsesHttp2)>>)>>, AuditsPartial)

\* the reports a whole run is checked on
MainReports(url) == {GoodReport(url), SkippingReport(url), BrokenReport(url)}

FileNames == {cached_result_file(u) : u \in UrlChoices}
FileContents(url) == {Missing, NotJson, EmptyDoc} \cup MainReports(url)

\* the samples a batch handed to push_results is drawn from
SampleChoices == {
    <<S("lighthouse_scrape_duration_seconds"),
      << <<S("instance"), S("https://example.com")>> >>, Num(1234)>>,
    <<S("lighthouse_category_score"),
      << <<S("instance"), S("https://example.com")>>,
         <<S("category"), S("seo")>> >>, Null>>,
    <<S("lighthouse_audit_score"),
      << <<S("instance"), S("https://example.com")>>,
         <<S("category"), S("performance")>>,
         <<S("id"), SpeedIndex>> >>, Num(0)>>,
    <<S("lighthouse_speed_index"),
      << <<S("instance"), <<"https://example.com/?q=a", NL, "b">> >> >>, Num(1500)>> }

Batches == UNION {[1..n -> SampleChoices] : n \in 0..MaxBatch}

\* the status of the gateway's response
StatusCodes == {101, 200, 202, 304, 404, 500}

----------------------------------------------------------------------------
(* __main__ and run_lighthouse *)

\* open(cached_result_file, "r") and json.load both succeed
Loadable(content) == content /= Missing /\ content /= NotJson

Abort(exc) == pc' = "aborted" /\ error' = exc

\* lines 157-163 without the except clause
LoadCachedRaises ==
    /\ pc = "load"
    /\ LET f == cached_result_file(urls[i])
       IN IF use_cached_results
          THEN IF Loadable(files[f])
               THEN /\ lighthouse_report' = files[f]
                    /\ trace' = trace \o <<[ev |-> "open_r", idx |-> i, file |-> f,
                                            loaded |-> TRUE]>>
                    /\ pc' = "run"
                    /\ UNCHANGED error
               ELSE /\ lighthouse_report' = Null
                    /\ trace' = trace \o <<[ev |-> "open_r", idx |-> i, file |-> f,
                                            loaded |-> FALSE]>>
                    /\ Abort("OSError")
          ELSE /\ lighthouse_report' = Null
               /\ pc' = "run"
               /\ UNCHANGED <<trace, error>>
    /\ UNCHANGED <<urls, use_cached_results, files, initial_files, i, results>>

\* lines 157-168: reset the local, then try the cached file
LoadCached ==
    /\ pc = "load"
    /\ LET f == cached_result_file(urls[i])
       IN IF use_cached_results
          THEN IF Loadable(files[f])
               THEN /\ lighthouse_report' = files[f]
                    /\ trace' = trace \o <<[ev |-> "open_r", idx |-> i, file |-> f,
                                            loaded |-> TRUE]>>
               ELSE /\ lighthouse_report' = Null
                    /\ trace' = trace \o <<[ev |-> "open_r", idx |-> i, file |-> f,
                                            loaded |-> FALSE],
                                           [ev |-> "stderr", idx |-> i,
                                            msg |-> "Unable to load cached results"]>>
          ELSE /\ lighthouse_report' = Null
               /\ UNCHANGED trace
    /\ pc' = "run"
    /\ UNCHANGED <<urls, use_cached_results, files, initial_files, i, results, error>>

\* a run that launches lighthouse whatever was loaded
NeedsLiveRunAlways(report) == TRUE
\* `if not lighthouse_report`
NeedsLiveRun(report) == ~Truthy(report)

\* a run_lighthouse that ignores the exit status
ChildFailedNever(returncode) == FALSE
\* `if child_result.returncode != 0`
ChildFailed(returncode) == returncode /= 0

\* what the child process can answer: its exit status and its standard output
ChildStdouts(url) == {NotJson, EmptyDoc} \cup MainReports(url)
ChildResults(url) == [returncode : {0, 1}, stdout : ChildStdouts(url)]

\* lines 170-173 with run_lighthouse, lines 14-43
RunLighthouse ==
    /\ pc = "run"
    /\ IF NeedsLiveRun(lighthouse_report)
       THEN \E child_result \in ChildResults(urls[i]) :
              LET launched == <<[ev |-> "stdout", idx |-> i,
                                 msg |-> "Launching lighthouse"],
                                [ev |-> "subprocess", idx |-> i, url |-> urls[i],
                                 returncode |-> child_result.returncode,
                                 stdout |-> child_result.stdout]>>
              IN IF ChildFailed(child_result.returncode)
                 THEN /\ trace' = trace \o launched
                                  \o <<[ev |-> "stderr", idx |-> i,
                                        msg |-> "child_result.stderr"]>>
                      /\ Abort("RuntimeError")
                      /\ UNCHANGED lighthouse_report
                 ELSE IF child_result.stdout = NotJson
                 THEN /\ trace' = trace \o launched
                      /\ Abort("JSONDecodeError")
                      /\ UNCHANGED lighthouse_report
                 ELSE /\ trace' = trace \o launched
                      /\ lighthouse_report' = child_result.stdout
                      /\ pc' = "write"
                      /\ UNCHANGED error
       ELSE /\ pc' = "write"
            /\ UNCHANGED <<lighthouse_report, trace, error>>
    /\ UNCHANGED <<urls, use_cached_results, files, initial_files, i, results>>

\* lines 175-177
WriteCache ==
    /\ pc = "write"
    /\ LET f == cached_result_file(urls[i])
       IN IF use_cached_results
          THEN /\ files' = [files EXCEPT ![f] = lighthouse_report]
               /\ trace' = trace \o <<[ev |-> "open_w", idx |-> i, file |-> f,
                                       doc |-> lighthouse_report]>>
          ELSE UNCHANGED <<files, trace>>
    /\ pc' = "extract"
    /\ UNCHANGED <<urls, use_cached_results, initial_files, i, lighthouse_report,
                   results, error>>

\* a loop left after its first URL
MoreUrlsNever(n) == FALSE
\* `for url in args.urls`: another URL follows the n-th
MoreUrls(n) == n < Len(urls)

\* line 179, and the for loop's step
Extract ==
    /\ pc = "extract"
    /\ LET r == extract_metrics_from_report(lighthouse_report)
       IN /\ trace' = trace \o <<[ev |-> "extract", idx |-> i,
                                  data |-> lighthouse_report, ok |-> r.ok]>>
          /\ IF ~r.ok
             THEN /\ Abort("KeyError")
                  /\ UNCHANGED <<results, i>>
             ELSE /\ results' = results \o r.samples
                  /\ UNCHANGED error
                  /\ IF MoreUrls(i)
                     THEN i' = i + 1 /\ pc' = "load"
                     ELSE i' = i /\ pc' = "push"
    /\ UNCHANGED <<urls, use_cached_results, files, initial_files, lighthouse_report>>

\* line 181 with push_results, lines 99-131
Push ==
    /\ pc = "push"
    /\ \E status \in StatusCodes :
         LET flat_results == flat_results_of(results)
             post == [ev |-> "post", idx |-> 0, body |-> Payload(results),
                      status |-> status]
         IN IF ~ResponseOk(status)
            THEN /\ trace' = trace \o <<post,
                                 [ev |-> "stderr", idx |-> 0,
                                  msg |-> "Error pushing results"],
                                 [ev |-> "stderr", idx |-> 0, msg |-> "response.text"],
                                 [ev |-> "stderr", idx |-> 0, msg |-> "flat_results"]>>
                 /\ Abort("HTTPError")
            ELSE /\ trace' = trace \o <<post,
                                 [ev |-> "stdout", idx |-> 0, msg |-> "Pushed",
                                  n |-> Len(results),
                                  preview |-> SubSeq(flat_results, 1,
                                                     IF Len(flat_results) < 3
                                                     THEN Len(flat_results) ELSE 3)]>>
                 /\ pc' = "done"
                 /\ UNCHANGED error
    /\ UNCHANGED <<urls, use_cached_results, files, initial_files, i,
                   lighthouse_report, results>>

----------------------------------------------------------------------------
(* Specifications *)

\* a whole run: the command line and the working directory are the input
Init ==
    /\ urls \in UNION {[1..n -> UrlChoices] : n \in 1..MaxUrls}
    /\ use_cached_results \in BOOLEAN
    /\ files \in [FileNames -> {Missing, NotJson, EmptyDoc}
                               \cup UNION {MainReports(u) : u \in UrlChoices}]
    /\ \A u \in UrlChoices : files[cached_result_file(u)] \in FileContents(u)
    /\ initial_files = files
    /\ pc = "load"
    /\ i = 1
    /\ lighthouse_report = Null
    /\ results = <<>>
    /\ trace = <<>>
    /\ error = ""

Next == LoadCached \/ RunLighthouse \/ WriteCache \/ Extract \/ Push

Spec == Init /\ [][Next]_vars

\* the extractor alone: line 179 on every enumerated report
InitExtract ==
    /\ lighthouse_report \in AllReports
    /\ urls = <<lighthouse_report.requestedUrl>>
    /\ use_cached_results = FALSE
    /\ files = [f \in FileNames |-> Missing]
    /\ initial_files = files
    /\ pc = "extract"
    /\ i = 1
    /\ results = <<>>
    /\ trace = <<>>
    /\ error = ""

NextExtract == Extract

SpecExtract == InitExtract /\ [][NextExtract]_vars

\* push_results alone: line 181 on every enumerated batch
InitPush ==
    /\ results \in Batches
    /\ urls = <<S("https://example.com")>>
    /\ use_cached_results = FALSE
    /\ files = [f \in FileNames |-> Missing]
    /\ initial_files = files
    /\ pc = "push"
    /\ i = 1
    /\ lighthouse_report = Null
    /\ trace = <<>>
    /\ error = ""

NextPush == Push

SpecPush == InitPush /\ [][NextPush]_vars

----------------------------------------------------------------------------
(* Reading the trace and the samples *)

Events(ev) == {k \in 1..Len(trace) : trace[k].ev = ev}
Posts == Events("post")
Launches == Events("subprocess")
CacheReads == Events("open_r")
CacheWrites == Events("open_w")
Extractions == Events("extract")

MetricName(sample) == sample[1]
Labels(sample) == sample[2]
Value(sample) == sample[3]

\* the positions of the samples of one metric
SamplesNamed(name) == {k \in 1..Len(results) : MetricName(results[k]) = name}

ScoreMetrics == {S("lighthouse_category_score"), S("lighthouse_audit_score")}

\* the category label of a category_score or audit_score sample
CategoryLabel(sample) == Labels(sample)[2][2]

\* the references to audit_id among auditRefs
RefsTo(auditRefs, audit_id) ==
    {k \in 1..Len(auditRefs) : auditRefs[k].id = audit_id}

\* the categories of a report the extractor does not skip
Retained(data) ==
    {k \in 1..Len(data.categories) :
       data.categories[k].id \notin {S("pwa"), S("accessibility")}}

\* the run extracted the one report of SpecExtract without a KeyError
Extracted == pc = "push" /\ error = ""

RECURSIVE CountNL(_)
CountNL(text) ==
    IF text = <<>> THEN 0
    ELSE (IF Head(text) = NL THEN 1 ELSE 0) + CountNL(Tail(text))

----------------------------------------------------------------------------
(* Claims about a whole run, under Spec *)

\* the extraction of the j-th URL's report, 0 if there is none yet
ExtractionOf(j) ==
    IF \E k \in Extractions : trace[k].idx = j /\ trace[k].ok
    THEN CHOOSE k \in Extractions : trace[k].idx = j /\ trace[k].ok
    ELSE 0

\* the j-th URL's report came from its cache file or from the child process
Obtained(j, before) ==
    \E k \in 1..(before - 1) :
       /\ trace[k].idx = j
       /\ \/ trace[k].ev = "open_r" /\ trace[k].loaded
          \/ /\ trace[k].ev = "subprocess"
             /\ trace[k].returncode = 0
             /\ trace[k].stdout /= NotJson

\* C1: the HTTP push happens at most once, and only after every URL's
\* report was obtained and its samples extracted, the body being the
\* samples of all URLs in order; a run ended by a subprocess failure,
\* unparseable output or a missing audit id has pushed nothing.
C1_PushOnceAfterAllUrls ==
    /\ Cardinality(Posts) <= 1
    /\ \A p \in Posts :
          /\ \A j \in 1..Len(urls) :
                /\ ExtractionOf(j) \in 1..(p - 1)
                /\ Obtained(j, ExtractionOf(j))
          /\ trace[p].body =
                Payload(Concat([j \in 1..Len(urls) |->
                    extract_metrics_from_report(trace[ExtractionOf(j)].data).samples]))
    /\ error \in {"RuntimeError", "JSONDecodeError", "KeyError"}
          => pc = "aborted" /\ Posts = {}

\* a run over two URLs that ended with its one push
C1_Witness ==
    /\ pc = "done"
    /\ Len(urls) = 2
    /\ Cardinality(Posts) = 1
    /\ Cardinality(Extractions) = 2

ChildFailures == {k \in Launches : trace[k].returncode /= 0}

\* C2: when the child process of a URL exits non-zero the run ends there
\* with RuntimeError: nothing follows but the print of the child's
\* stderr (no later launch, no extraction, no push), and the URL's cache
\* file is not written, caching enabled or not.
C2_ChildFailureAborts ==
    \A k \in ChildFailures :
       /\ pc = "aborted"
       /\ error = "RuntimeError"
       /\ \A m \in (k + 1)..Len(trace) : trace[m].ev = "stderr"
       /\ Posts = {}
       /\ \A w \in CacheWrites : trace[w].idx /= trace[k].idx
       /\ files[cached_result_file(trace[k].url)]
             = initial_files[cached_result_file(trace[k].url)]

\* the first of two URLs fails with caching enabled
C2_Witness ==
    /\ use_cached_results
    /\ Len(urls) = 2
    /\ \E k \in ChildFailures : trace[k].idx = 1

\* C3: every response whose status is not 2xx ends the run with an
\* error, and the "Pushed" report is printed only for a 2xx response.
C3_Non2xxIsFatal ==
    \A p \in Posts :
       LET is2xx == 200 <= trace[p].status /\ trace[p].status < 300
           pushed == \E k \in Events("stdout") : trace[k].msg = "Pushed"
       IN /\ ~is2xx => pc = "aborted" /\ error = "HTTPError"
          /\ pushed => is2xx

\* the subprocess events of one URL
LaunchesOf(url) == {k \in Launches : trace[k].url = url}

\* C8 as stated: with caching enabled, a URL whose cache file existed and
\* parsed when the run started is never handed to the child process.
C8_ParseableCacheNeverLaunches ==
    use_cached_results =>
       \A u \in UrlChoices :
          Loadable(initial_files[cached_result_file(u)]) => LaunchesOf(u) = {}

\* C8 amended: with caching enabled, a URL whose cache file existed and
\* parsed to a non-empty (truthy) document when the run started is never
\* handed to the child process, and the document extracted for it is the
\* cached one.
C8_TruthyCacheNeverLaunches ==
    use_cached_results =>
       \A u \in UrlChoices :
          LET cached == initial_files[cached_result_file(u)]
          IN Loadable(cached) /\ Truthy(cached) =>
                /\ LaunchesOf(u) = {}
                /\ \A k \in Extractions :
                      urls[trace[k].idx] = u => trace[k].data = cached

\* a cached report was extracted and the run went on to finish
C8_Witness ==
    /\ use_cached_results
    /\ pc = "done"
    /\ \E k \in Extractions :
          LET cached == initial_files[cached_result_file(urls[trace[k].idx])]
          IN Loadable(cached) /\ Truthy(cached) /\ trace[k].data = cached

ReadFailures == {k \in CacheReads : ~trace[k].loaded}

\* C9: a failed read of a URL's cache file does not end the run: it is
\* followed by the "Unable to load" print on stderr and then by the launch
\* of the child process for that URL, and when the child succeeds the next
\* effect is the write of its report to that URL's cache file, before the
\* report is extracted and before anything is done for the next URL.
C9_ReadFailureFallsThrough ==
    \A k \in ReadFailures :
       LET j == trace[k].idx
           n == Len(trace)
       IN /\ n >= k + 1
          /\ trace[k + 1].ev = "stderr"
          /\ trace[k + 1].msg = "Unable to load cached results"
          /\ n = k + 1 => pc = "run" /\ error = "" /\ ~Truthy(lighthouse_report)
          /\ n > k + 1 =>
                /\ n >= k + 3
                /\ trace[k + 3].ev = "subprocess"
                /\ trace[k + 3].idx = j
                /\ trace[k + 3].url = urls[j]
                /\ (trace[k + 3].returncode = 0 /\ trace[k + 3].stdout /= NotJson) =>
                      /\ n = k + 3 => pc = "write" /\ error = "" /\ i = j
                      /\ n > k + 3 =>
                            /\ trace[k + 4].ev = "open_w"
                            /\ trace[k + 4].idx = j
                            /\ trace[k + 4].file = cached_result_file(urls[j])
                            /\ trace[k + 4].doc = trace[k + 3].stdout
                            /\ (i = j /\ pc = "extract") =>
                                  files[cached_result_file(urls[j])]
                                     = trace[k + 3].stdout

\* the first URL's cache file could not be read, its live report was
\* written, and the run is at the second URL
C9_Witness ==
    /\ i = 2
    /\ \E k \in ReadFailures :
          /\ trace[k].idx = 1
          /\ \E w \in CacheWrites : trace[w].idx = 1 /\ w = k + 4

\* C10: a cache file is written only after a live run of the child
\* process for that URL with caching enabled, never when the report was
\* loaded from the cache file, and with caching disabled no cache file is
\* read or written.
C10_WriteOnlyAfterLiveRun ==
    /\ \A w \in CacheWrites :
          /\ use_cached_results
          /\ \E k \in Launches : k < w /\ trace[k].idx = trace[w].idx
    /\ ~use_cached_results => CacheReads = {} /\ CacheWrites = {} /\ files = initial_files

----------------------------------------------------------------------------
(* Claims about extract_metrics_from_report, under SpecExtract *)

\* the report with the categories of `denied` taken out
Without(data, denied) ==
    [data EXCEPT !.categories = SelectSeq(@, LAMBDA c : c.id \notin denied)]

\* C4 as stated: no category_score or audit_score sample carries the
\* category label accessibility, pwa (progressive-web-app) or seo
\* (search-engine-optimization).
C4_NoSampleOfDeniedOrSeo ==
    \A k \in 1..Len(results) :
       MetricName(results[k]) \in ScoreMetrics
          => CategoryLabel(results[k]) \notin {S("accessibility"), S("pwa"), S("seo")}

\* C4 amended: the deny-list is the category ids accessibility and pwa and
\* nothing else: no category_score or audit_score sample carries one of
\* them, such a category is skipped whole - the run ends as it does on the
\* report without it, even when it references an audit that is missing -
\* and a seo category keeps its category_score sample.
C4_DeniedCategoriesSkipped ==
    pc /= "extract" =>
       LET denied == {S("accessibility"), S("pwa")}
           data == lighthouse_report
           r == extract_metrics_from_report(Without(data, denied))
       IN /\ \A k \in 1..Len(results) :
                MetricName(results[k]) \in ScoreMetrics
                   => CategoryLabel(results[k]) \notin denied
          /\ (error = "KeyError") <=> ~r.ok
          /\ results = r.samples
          /\ Extracted =>
                \A c \in 1..Len(data.categories) :
                   data.categories[c].id = S("seo") =>
                      \E k \in SamplesNamed(S("lighthouse_category_score")) :
                         CategoryLabel(results[k]) = S("seo")

\* a pwa category that references a missing audit was passed over, and a
\* category after it was extracted
C4_Witness ==
    /\ Extracted
    /\ Len(lighthouse_report.categories) = 2
    /\ lighthouse_report.categories[1].id = S("pwa")
    /\ \E k \in 1..Len(lighthouse_report.categories[1].auditRefs) :
          lighthouse_report.categories[1].auditRefs[k].id
             \notin DOMAIN lighthouse_report.audits
    /\ Len(results) = 2

\* the labels instance, category, id of an audit_score sample, in order
AuditScoreLabels(data, category_id, audit_id) ==
    << <<S("instance"), data.requestedUrl>>,
       <<S("category"), category_id>>,
       <<S("id"), audit_id>> >>

\* C5: for every reference of a retained category to an audit whose score
\* is not null there is exactly one audit_score sample, labelled instance,
\* category, id in that order and valued with that score (as many samples
\* as the category lists the audit); for a null score there is none; and
\* there is no other audit_score sample.
C5_OneAuditScorePerReference ==
    Extracted =>
       LET data == lighthouse_report
       IN /\ \A c \in Retained(data) : \A a \in AuditIds :
                LET category == data.categories[c]
                    refs == RefsTo(category.auditRefs, a)
                    hits == {k \in SamplesNamed(S("lighthouse_audit_score")) :
                               Labels(results[k]) = AuditScoreLabels(data, category.id, a)}
                IN IF refs /= {} /\ data.audits[a].score /= Null
                   THEN /\ Cardinality(hits) = Cardinality(refs)
                        /\ \A k \in hits : Value(results[k]) = data.audits[a].score
                   ELSE hits = {}
          /\ \A k \in SamplesNamed(S("lighthouse_audit_score")) :
                \E c \in Retained(data) : \E a \in AuditIds :
                   Labels(results[k]) = AuditScoreLabels(data, data.categories[c].id, a)

\* a retained category references speed-index, scored 0, and
\* first-meaningful-paint, not scored
C5_Witness ==
    /\ Extracted
    /\ lighthouse_report.audits = AuditsScored
    /\ \E c \in Retained(lighthouse_report) :
          /\ RefsTo(lighthouse_report.categories[c].auditRefs, SpeedIndex) /= {}
          /\ RefsTo(lighthouse_report.categories[c].auditRefs, FirstMeaningfulPaint) /= {}
    /\ Cardinality(SamplesNamed(S("lighthouse_audit_score"))) = 1

\* the references of retained categories to audit_id, as <<category, reference>>
RetainedRefsTo(data, audit_id) ==
    UNION {{<<c, k>> : k \in RefsTo(data.categories[c].auditRefs, audit_id)} :
             c \in Retained(data)}

\* the samples of `metric` are those of the references to audit_id
SpecialMetricFollows(data, audit_id, metric) ==
    LET refs == RetainedRefsTo(data, audit_id)
        hits == SamplesNamed(metric)
    IN /\ hits /= {} <=> refs /= {}
       /\ Cardinality(hits) = Cardinality(refs)
       /\ \A k \in hits :
             /\ Labels(results[k]) = << <<S("instance"), data.requestedUrl>> >>
             /\ Value(results[k]) = data.audits[audit_id].numericValue

\* C6: a first_meaningful_paint_ms (speed_index) sample is in the output
\* if and only if a retained category references the audit
\* first-meaningful-paint (speed-index); it is labelled with instance only,
\* its value is the audit's numericValue, and it is there whether or not
\* the audit's score is null.
C6_SpecialMetrics ==
    Extracted =>
       /\ SpecialMetricFollows(lighthouse_report, FirstMeaningfulPaint,
                               S("lighthouse_first_meaningful_paint_ms"))
       /\ SpecialMetricFollows(lighthouse_report, SpeedIndex,
                               S("lighthouse_speed_index"))

\* first-meaningful-paint, not scored, and speed-index, scored, are both
\* referenced by a retained category
C6_Witness ==
    /\ Extracted
    /\ lighthouse_report.audits = AuditsScored
    /\ RetainedRefsTo(lighthouse_report, FirstMeaningfulPaint) /= {}
    /\ RetainedRefsTo(lighthouse_report, SpeedIndex) /= {}
    /\ SamplesNamed(S("lighthouse_first_meaningful_paint_ms")) /= {}
    /\ Cardinality(SamplesNamed(S("lighthouse_audit_score"))) = 1

----------------------------------------------------------------------------
(* Claims about push_results, under SpecPush *)

\* C7: the body of the POST is the six # TYPE header lines followed by one
\* line per sample, so it has as many lines as headers and samples
\* together, and it ends with exactly one line break.
C7_OneLinePerSample ==
    \A p \in Posts :
       LET body == trace[p].body
           n == Len(body)
       IN /\ CountNL(body) = Len(flat_result_headers) + Len(results)
          /\ body[n] = NL
          /\ body[n - 1] /= NL
          /\ \A h \in 1..Len(flat_result_headers) :
                SubSeq(body, 2 * h - 1, 2 * h) = flat_result_headers[h] \o S(NL)

====
